---------------------------- MODULE Spec2Model ----------------------------
(***************************************************************************)
(* Model of the recognition/attendance script src/main.py of the smart     *)
(* attendance system: the per-subject local ledger Attendance_<S>.csv, the  *)
(* per-subject worksheet of the "Attendance Report" spreadsheet, and the    *)
(* recognition sessions that mark identities in both.                       *)
(*                                                                         *)
(* Text is modelled as sequences of one-character strings.  A file is the   *)
(* sequence of its lines, and a line is held as the sequence of the fields  *)
(* its text splits into at the commas (text and field sequence determine    *)
(* each other), so that writing a row (an f-string) and reading it back     *)
(* (pandas.read_csv, gspread get_all_records) are two different functions.  *)
(***************************************************************************)
EXTENDS Integers, Sequences, FiniteSets, TLC

VARIABLES
    now,      \* the wall clock, in ticks (datetime.now())
    local,    \* local[f]: the file Attendance_<f>.csv; <<>> when it does not exist
    remote,   \* remote[s]: the rows of worksheet s (header first); <<>> when the tab does not exist
    sess,     \* sess[p]: one run of main.py (process p); marks counts its mark_local_csv calls
    launches, \* how many runs have been started
    ev        \* the step just taken: its inputs, the date mark_local_csv read, what it printed

vars == <<now, local, remote, sess, launches, ev>>

-----------------------------------------------------------------------------
(* Bounds of the model *)

\* the clock stops at this tick
MaxClock == 1
\* ticks that pass while one face is handled
MaxStepTicks == 1
\* ticks in one calendar day
TicksPerDay == 1
\* seconds in one tick
SecsPerTick == 5
\* face distances lie within this many hundredths of the tolerance
MaxDelta == 5
\* concurrent runs of main.py
NumSessions == 2
\* runs ever started
MaxLaunch == 2
\* faces one run handles before it ends
MaxFaces == 2
\* faces one run handles when runs overlap
OverlapFaces == 1
(* Program constants *)

\* tolerance=0.47 of compare_faces, in hundredths
Tolerance == 47
\* cooldown_seconds
CooldownSeconds == 5

Procs == 1..NumSessions

-----------------------------------------------------------------------------
(* Text *)

Digits == <<"0", "1", "2", "3", "4", "5", "6", "7", "8", "9">>

DigitSet == {Digits[i] : i \in 1..10}

DigitVal(c) == (CHOOSE i \in 1..10 : Digits[i] = c) - 1

DigitChar(n) == Digits[n + 1]

\* str.isdigit-shaped text: what int() and the pandas integer parser accept
IsIntText(s) == Len(s) > 0 /\ \A i \in 1..Len(s) : s[i] \in DigitSet

RECURSIVE ParseInt(_)
ParseInt(s) ==
    IF Len(s) = 0 THEN 0
    ELSE 10 * ParseInt(SubSeq(s, 1, Len(s) - 1)) + DigitVal(s[Len(s)])

RECURSIVE IntToStr(_)
IntToStr(n) ==
    IF n < 10 THEN <<DigitChar(n)>>
    ELSE IntToStr(n \div 10) \o <<DigitChar(n % 10)>>

\* position of the first occurrence of character c in s, 0 when there is none
RECURSIVE FindFrom(_, _, _)
FindFrom(s, c, i) ==
    IF i > Len(s) THEN 0
    ELSE IF s[i] = c THEN i
    ELSE FindFrom(s, c, i + 1)

Find(s, c) == FindFrom(s, c, 1)

\* s.split(c): the pieces of s between the occurrences of c
RECURSIVE Split(_, _)
Split(s, c) ==
    LET i == Find(s, c) IN
    IF i = 0 THEN <<s>>
    ELSE <<SubSeq(s, 1, i - 1)>> \o Split(SubSeq(s, i + 1, Len(s)), c)

\* s.split(c, 1) of a text that holds c: <<before, after>>
SplitOnce(s, c) ==
    LET i == Find(s, c) IN
    <<SubSeq(s, 1, i - 1), SubSeq(s, i + 1, Len(s))>>


-----------------------------------------------------------------------------
(* Literal texts of the program *)

T_USN == <<"U", "S", "N">>

T_Name == <<"N", "a", "m", "e">>

T_Date == <<"D", "a", "t", "e">>

T_Time == <<"T", "i", "m", "e">>

T_Status == <<"S", "t", "a", "t", "u", "s">>

T_PRESENT == <<"P", "R", "E", "S", "E", "N", "T">>

Comma == <<",">>

\* "USN,Name,Date,Time,Status" (the newline that ends a line is the line boundary)
HeaderText == T_USN \o Comma \o T_Name \o Comma \o T_Date \o Comma \o T_Time \o Comma \o T_Status

\* a line of a file, as a reader that splits at the commas sees it
Line(text) == Split(text, ",")

\* the line line 102 writes
HeaderLine == Line(HeaderText)

\* ["USN", "Name", "Date", "Time", "Status"]
HeaderRow == <<T_USN, T_Name, T_Date, T_Time, T_Status>>

\* datetime.now().strftime("%Y-%m-%d") at tick t; the year and month are
\* abbreviated to one symbol each, the day of the month is the day number
DateStr(t) == <<"Y", "-", "M", "-", DigitChar(t \div TicksPerDay)>>

\* datetime.now().strftime("%H:%M:%S") at tick t; hours and minutes are
\* abbreviated, the seconds are the tick within the day
TimeStr(t) == <<"H", ":", "M", ":", DigitChar(t % TicksPerDay)>>

\* datetime.now().timestamp() at tick t, in seconds
Timestamp(t) == t * SecsPerTick

-----------------------------------------------------------------------------
(* The embedding snapshot: known_names, in storage order.  Every entry is  *)
(* "<USN>_<name>" as the registration tool builds it from the upper-cased  *)
(* USN field and the name field; a USN may be any non-empty text, so one   *)
(* is alphanumeric and one is all digits.                                  *)

KnownNames == << <<"A", "1", "_", "R">>, <<"0", "7", "_", "S">> >>

\* the values a face distance takes, in hundredths
DistVals == (Tolerance - MaxDelta)..(Tolerance + MaxDelta)

\* the distances the recognition sessions see: at the tolerance and above it
NearVals == {Tolerance, Tolerance + 1}

\* face_distance(known_encodings, enc) for one face: one distance per stored embedding
DistVecs == [1..Len(KnownNames) -> DistVals]

NearVecs == [1..Len(KnownNames) -> NearVals]

\* np.argmin(dist) over dist[1..n]: the first index holding the least value
RECURSIVE ArgMinUpTo(_, _)
ArgMinUpTo(dist, n) ==
    IF n = 1 THEN 1
    ELSE LET b == ArgMinUpTo(dist, n - 1) IN
         IF dist[n] < dist[b] THEN n ELSE b

\* a variant of ArgMin: the last index holding the least value
ArgMinLast(dist) ==
    CHOOSE i \in 1..Len(KnownNames) :
        /\ \A j \in 1..Len(KnownNames) : dist[i] <= dist[j]
        /\ \A j \in (i + 1)..Len(KnownNames) : dist[j] > dist[i]

ArgMin(dist) == ArgMinUpTo(dist, Len(KnownNames))

\* a variant of CompareFaces: a tolerance one hundredth wider
CompareFacesLoose(dist) == [i \in 1..Len(KnownNames) |-> dist[i] <= Tolerance + 1]

\* compare_faces(known_encodings, enc, tolerance): list(face_distance(...) <= tolerance)
CompareFaces(dist) == [i \in 1..Len(KnownNames) |-> dist[i] <= Tolerance]

\* lines 152-158: the stored name the face matches, <<>> for an unknown face
MatchFace(dist) ==
    LET matches == CompareFaces(dist)
        best == ArgMin(dist)
    IN  IF matches[best] THEN KnownNames[best] ELSE <<>>

-----------------------------------------------------------------------------
(* pandas.read_csv of a ledger file: the first line names the columns, a   *)
(* column whose cells are all integer text is read as integers, any other   *)
(* column is read as text.                                                  *)

NumDataRows(file) == Len(file) - 1

DataRow(file, i) == file[i + 1]

\* position of the column called col in the header line, 0 when there is none
ColumnOf(file, col) ==
    LET h == file[1] IN
    IF \E k \in 1..Len(h) : h[k] = col THEN CHOOSE k \in 1..Len(h) : h[k] = col ELSE 0

ColumnIsInt(file, k) ==
    /\ NumDataRows(file) > 0
    /\ \A i \in 1..NumDataRows(file) : IsIntText(DataRow(file, i)[k])

\* the value of df[col] in data row i
Cell(file, i, col) ==
    LET k == ColumnOf(file, col)
        raw == DataRow(file, i)[k]
    IN  IF ColumnIsInt(file, k)
        THEN [isInt |-> TRUE, n |-> ParseInt(raw), s |-> <<>>]
        ELSE [isInt |-> FALSE, n |-> 0, s |-> raw]

\* df[col] == text, for one cell: an integer never equals a text
CellEqText(cell, text) == ~cell.isInt /\ cell.s = text

\* the cell after .astype(str)
AsTypeStr(cell) == IF cell.isInt THEN IntToStr(cell.n) ELSE cell.s

\* not df[(df["USN"] == usn) & (df["Date"] == today)].empty
DfHasUsnDate(file, usn, today) ==
    \E i \in 1..NumDataRows(file) :
        /\ CellEqText(Cell(file, i, T_USN), usn)
        /\ CellEqText(Cell(file, i, T_Date), today)

\* set(df[df["Date"] == today]["USN"].astype(str))
DfTodayUsns(file, today) ==
    { AsTypeStr(Cell(file, i, T_USN)) :
        i \in { j \in 1..NumDataRows(file) : CellEqText(Cell(file, j, T_Date), today) } }

-----------------------------------------------------------------------------
(* gspread: get_all_records keys every row after the first by the first    *)
(* row and turns each cell that is integer text into an integer.            *)

\* numericise(value) followed by str(...)
StrOfNumericised(text) == IF IsIntText(text) THEN IntToStr(ParseInt(text)) ELSE text

KeyOf(ws, col) ==
    IF \E k \in 1..Len(ws[1]) : ws[1][k] = col
    THEN CHOOSE k \in 1..Len(ws[1]) : ws[1][k] = col ELSE 0

\* str(r.get(col)) of the record made from worksheet row i (i >= 2)
RecordStr(ws, i, col) ==
    LET k == KeyOf(ws, col) IN
    IF k = 0 THEN <<"N", "o", "n", "e">> ELSE StrOfNumericised(ws[i][k])

\* lines 83-85: some record has this USN and today's date
RecordsHaveUsnDate(ws, usn, today) ==
    \E i \in 2..Len(ws) :
        /\ RecordStr(ws, i, T_USN) = usn
        /\ RecordStr(ws, i, T_Date) = today

-----------------------------------------------------------------------------
(* The two stores *)

\* SUBJECT (lines 17-19); args is sys.argv[1:]
SubjectOf(args) == IF Len(args) >= 2 THEN args[2] ELSE "General"

\* a variant of AttendanceFile: one ledger file for every subject
AttendanceFileShared(subject) == "General"

\* ATTENDANCE_FILE (line 31): the ledger file of a subject, named by the subject
AttendanceFile(subject) == subject

\* sheet.worksheet(SUBJECT) (line 59): the tab of a subject, named by the subject
WorksheetOf(subject) == subject

\* f"{usn},{name},{today},{time_now},PRESENT" (line 111)
FormatRow(usn, name, today, time_now) ==
    usn \o Comma \o name \o Comma \o today \o Comma \o time_now \o Comma \o T_PRESENT

\* a variant of EnsureFile: the file is opened for writing whether it exists or not
EnsureFileAlways(file) == <<HeaderLine>>

\* lines 99-102: the file after "create file if not exists"
EnsureFile(file) == IF file = <<>> THEN <<HeaderLine>> ELSE file

\* mark_local_csv (lines 95-113); tToday and tTime are the ticks of the two clock reads
MarkLocalCsv(file, usn, name, tToday, tTime) ==
    LET f == EnsureFile(file)
        today == DateStr(tToday)
        time_now == TimeStr(tTime)
    IN  IF DfHasUsnDate(f, usn, today)
        THEN [file |-> f, saved |-> FALSE]
        ELSE [file |-> Append(f, Line(FormatRow(usn, name, today, time_now))), saved |-> TRUE]

\* what a remote call does: "none" works, "read" makes get_all_records raise,
\* "append" makes append_row raise
RemoteFaults == {"none", "read", "append"}

\* a variant of MarkGoogle: no try/except around the worksheet calls
MarkGoogleUncaught(ws, connected, usn, name, tToday, tTime, fault) ==
    LET today == DateStr(tToday)
        time_now == TimeStr(tTime)
    IN  IF ~connected THEN [ws |-> ws, synced |-> FALSE, warned |-> FALSE, raised |-> FALSE]
        ELSE IF fault = "read" THEN [ws |-> ws, synced |-> FALSE, warned |-> FALSE, raised |-> TRUE]
        ELSE IF RecordsHaveUsnDate(ws, usn, today)
             THEN [ws |-> ws, synced |-> FALSE, warned |-> FALSE, raised |-> FALSE]
        ELSE IF fault = "append" THEN [ws |-> ws, synced |-> FALSE, warned |-> FALSE, raised |-> TRUE]
        ELSE [ws |-> Append(ws, <<usn, name, today, time_now, T_PRESENT>>),
              synced |-> TRUE, warned |-> FALSE, raised |-> FALSE]

\* mark_google (lines 74-89); ws is the worksheet's rows, connected says whether
\* the module-level worksheet is set
MarkGoogle(ws, connected, usn, name, tToday, tTime, fault) ==
    LET today == DateStr(tToday)
        time_now == TimeStr(tTime)
    IN  IF ~connected THEN [ws |-> ws, synced |-> FALSE, warned |-> FALSE, raised |-> FALSE]
        ELSE IF fault = "read" THEN [ws |-> ws, synced |-> FALSE, warned |-> TRUE, raised |-> FALSE]
        ELSE IF RecordsHaveUsnDate(ws, usn, today)
             THEN [ws |-> ws, synced |-> FALSE, warned |-> FALSE, raised |-> FALSE]
        ELSE IF fault = "append" THEN [ws |-> ws, synced |-> FALSE, warned |-> TRUE, raised |-> FALSE]
        ELSE [ws |-> Append(ws, <<usn, name, today, time_now, T_PRESENT>>),
              synced |-> TRUE, warned |-> FALSE, raised |-> FALSE]

\* lines 135-140: already_present at loop start
LoadAlreadyPresent(file, today) ==
    IF file = <<>> THEN {} ELSE DfTodayUsns(file, today)

\* a variant of AddPresent: the identifier is not remembered
AddPresentForgets(already_present, usn) == already_present

\* line 171: already_present.add(usn)
AddPresent(already_present, usn) == already_present \cup {usn}

\* a variant of NoticeDue: the notice is due again when exactly the window has passed
NoticeDueAtWindow(cooldown, usn, now_ts) ==
    usn \notin DOMAIN cooldown \/ (now_ts - cooldown[usn]) >= CooldownSeconds

\* line 164: the notice is due
NoticeDue(cooldown, usn, now_ts) ==
    usn \notin DOMAIN cooldown \/ (now_ts - cooldown[usn]) > CooldownSeconds

\* line 166: cooldown[usn] = now_ts
SetCooldown(cooldown, usn, now_ts) ==
    [k \in (DOMAIN cooldown) \cup {usn} |-> IF k = usn THEN now_ts ELSE cooldown[k]]

-----------------------------------------------------------------------------
(* Sessions *)

Subjects == {"General", "Java"}

\* the command lines main.py is started with (sys.argv[1:])
ArgLists == {<<>>, <<"auto">>, <<"auto", "Java">>, <<"check", "Java">>}

KnownUsns == {SplitOnce(KnownNames[i], "_")[1] : i \in 1..Len(KnownNames)}

NoCooldown == [k \in {} |-> 0]

\* a process slot with no run in it
Idle ==
    [pc |-> "idle", subject |-> "General", connected |-> FALSE, today |-> <<>>,
     already_present |-> {}, cooldown |-> NoCooldown, faces |-> 0,
     marks |-> [u \in KnownUsns |-> 0],
     \* the name and the date of a mark_local_csv call that is under way
     full_name |-> <<>>, mark_today |-> <<>>]

NoEv ==
    [op |-> "init", p |-> 0, subject |-> "", dist |-> <<>>, name |-> <<>>, branch |-> "none",
     today |-> <<>>, out |-> {}]

Init ==
    /\ now = 0
    /\ local = [f \in Subjects |-> <<>>]
    /\ remote = [s \in Subjects |-> <<>>]
    /\ sess = [p \in Procs |-> Idle]
    /\ launches = 0
    /\ ev = NoEv

\* the clock advances
Tick ==
    /\ now < MaxClock
    /\ now' = now + 1
    /\ ev' = [NoEv EXCEPT !.op = "tick"]
    /\ UNCHANGED <<local, remote, sess, launches>>

\* lines 50-68: the worksheets after the module-level connection attempt
ConnectWorksheet(rem, subject, conn) ==
    IF conn /\ rem[WorksheetOf(subject)] = <<>>
    THEN [rem EXCEPT ![WorksheetOf(subject)] = <<HeaderRow>>]
    ELSE rem

\* python main.py <args>: the module-level code (lines 17-68), the entry point
\* (lines 198-203) and take_attendance up to the loop (lines 119-140).  The
\* run takes the first free process slot.
Launch(p, args, conn) ==
    LET subject == SubjectOf(args)
        today == DateStr(now)
    IN  /\ sess[p].pc = "idle"
        /\ \A q \in Procs : q < p => sess[q].pc # "idle"
        /\ launches < MaxLaunch
        /\ launches' = launches + 1
        /\ remote' = ConnectWorksheet(remote, subject, conn)
        /\ IF Len(args) >= 1 /\ args[1] = "auto"
           THEN /\ sess' = [sess EXCEPT ![p] =
                        [Idle EXCEPT !.pc = "loop", !.subject = subject, !.connected = conn,
                                     !.today = today,
                                     !.already_present =
                                         LoadAlreadyPresent(local[AttendanceFile(subject)], today)]]
                /\ ev' = [NoEv EXCEPT !.op = "launch", !.p = p, !.subject = subject,
                                      !.out = {"camera_started"}]
           ELSE /\ sess' = sess
                /\ ev' = [NoEv EXCEPT !.op = "launch", !.p = p, !.subject = subject,
                                      !.out = {"usage", "exit"}]
        /\ UNCHANGED <<now, local>>

\* lines 143-149: one frame is read and its faces are located; a failed read
\* leaves the loop and the process ends (lines 191-192)
ReadFrame(p, ret) ==
    /\ sess[p].pc = "loop"
    /\ IF ret
       THEN /\ sess' = [sess EXCEPT ![p].pc = "faces"]
            /\ ev' = [NoEv EXCEPT !.op = "frame", !.p = p]
       ELSE /\ sess' = [sess EXCEPT ![p] = Idle]
            /\ ev' = [NoEv EXCEPT !.op = "frame", !.p = p, !.out = {"exit"}]
    /\ UNCHANGED <<now, local, remote, launches>>

\* lines 187-189: after the frame's last face the frame is shown and the key
\* is polled; q leaves the loop and the process ends (lines 191-192)
WaitKey(p, quit) ==
    /\ sess[p].pc = "faces"
    /\ IF quit
       THEN /\ sess' = [sess EXCEPT ![p] = Idle]
            /\ ev' = [NoEv EXCEPT !.op = "key", !.p = p, !.out = {"exit"}]
       ELSE /\ sess' = [sess EXCEPT ![p].pc = "loop"]
            /\ ev' = [NoEv EXCEPT !.op = "key", !.p = p]
    /\ UNCHANGED <<now, local, remote, launches>>

\* lines 167-172: the new-attendance branch for the matched name full.  fault
\* is what the remote does in this step, and tLT <= tLC <= tGT <= tGC are the
\* ticks at which mark_local_csv reads the date and the time and mark_google
\* reads the date and the time: the clock may advance between any two reads
\* (the reads follow line 160's read of now, which is at the step's start).
MarkNew(p, e, usn, student_name, tLT, tLC, tGT, tGC, fault) ==
    LET s == sess[p]
        f == AttendanceFile(s.subject)
        w == WorksheetOf(s.subject)
        ml == MarkLocalCsv(local[f], usn, student_name, tLT, tLC)
        mg == MarkGoogle(remote[w], s.connected, usn, student_name, tGT, tGC, fault)
    IN  /\ now' = tGC
        /\ local' = [local EXCEPT ![f] = ml.file]
        /\ remote' = [remote EXCEPT ![w] = mg.ws]
        /\ IF mg.raised
           THEN /\ sess' = [sess EXCEPT ![p] = Idle]
                /\ ev' = [e EXCEPT !.branch = "error", !.today = DateStr(tLT),
                                   !.out = {"traceback", "exit"}]
           ELSE /\ sess' = [sess EXCEPT ![p].already_present = AddPresent(@, usn),
                                        ![p].faces = @ + 1,
                                        ![p].marks[usn] = @ + 1]
                /\ ev' = [e EXCEPT
                       !.branch = "new",
                       !.today = DateStr(tLT),
                       !.out = {"marked_present"}
                           \cup (IF ml.saved THEN {"saved_local"} ELSE {})
                           \cup (IF mg.synced THEN {"synced"} ELSE {})
                           \cup (IF mg.warned THEN {"sync_failed"} ELSE {})]

\* a variant of NoticeAlready: a due notice drops the identifier from already_present
NoticeAlreadyForgets(p, e, usn) ==
    LET s == sess[p]
        now_ts == Timestamp(now)
    IN  /\ IF NoticeDue(s.cooldown, usn, now_ts)
           THEN /\ sess' = [sess EXCEPT ![p].cooldown = SetCooldown(@, usn, now_ts),
                                        ![p].already_present = @ \ {usn},
                                        ![p].faces = @ + 1]
                /\ ev' = [e EXCEPT !.branch = "already", !.out = {"already_marked"}]
           ELSE /\ sess' = [sess EXCEPT ![p].faces = @ + 1]
                /\ ev' = [e EXCEPT !.branch = "already"]
        /\ UNCHANGED <<now, local, remote>>

\* lines 163-166: the already-marked branch
NoticeAlready(p, e, usn) ==
    LET s == sess[p]
        now_ts == Timestamp(now)
    IN  /\ IF NoticeDue(s.cooldown, usn, now_ts)
           THEN /\ sess' = [sess EXCEPT ![p].cooldown = SetCooldown(@, usn, now_ts),
                                        ![p].faces = @ + 1]
                /\ ev' = [e EXCEPT !.branch = "already", !.out = {"already_marked"}]
           ELSE /\ sess' = [sess EXCEPT ![p].faces = @ + 1]
                /\ ev' = [e EXCEPT !.branch = "already"]
        /\ UNCHANGED <<now, local, remote>>

\* the last tick the handling of a face that starts now can end at
StepEnd ==
    IF now + MaxStepTicks <= MaxClock THEN now + MaxStepTicks
    ELSE IF now <= MaxClock THEN MaxClock ELSE now

\* lines 151-185: the body of the for loop for one detected face; dist is the
\* face's distance to every stored embedding
HandleFace(p, dist) ==
    LET s == sess[p]
        full == MatchFace(dist)
        e == [NoEv EXCEPT !.op = "face", !.p = p, !.subject = s.subject, !.dist = dist,
                          !.name = full]
    IN  /\ s.pc = "faces"
        /\ IF full = <<>>
           THEN \* unknown person (lines 180-185)
                /\ sess' = [sess EXCEPT ![p].faces = @ + 1]
                /\ ev' = [e EXCEPT !.branch = "unknown"]
                /\ UNCHANGED <<now, local, remote>>
           ELSE IF Find(full, "_") = 0
           THEN \* line 158 cannot unpack: the exception ends the process
                /\ sess' = [sess EXCEPT ![p] = Idle]
                /\ ev' = [e EXCEPT !.branch = "error", !.out = {"traceback", "exit"}]
                /\ UNCHANGED <<now, local, remote>>
           ELSE LET usn == SplitOnce(full, "_")[1]
                    student_name == SplitOnce(full, "_")[2]
                IN  IF usn \in s.already_present
                    THEN NoticeAlready(p, e, usn)
                    ELSE \E fault \in RemoteFaults, tGC \in now..StepEnd :
                           \E tGT \in now..tGC : \E tLC \in now..tGT : \E tLT \in now..tLC :
                               MarkNew(p, e, usn, student_name, tLT, tLC, tGT, tGC, fault)
        /\ UNCHANGED launches

\* no run of main.py is in progress
NoRun == \A q \in Procs : sess[q].pc = "idle"

\* runs of main.py one after another: the ledger has a single writer
Next ==
    \/ Tick
    \/ \E p \in Procs, args \in ArgLists, conn \in BOOLEAN : NoRun /\ Launch(p, args, conn)
    \/ \E p \in Procs, ret \in BOOLEAN : ReadFrame(p, ret)
    \/ \E p \in Procs, dist \in NearVecs : sess[p].faces < MaxFaces /\ HandleFace(p, dist)
    \/ \E p \in Procs, quit \in BOOLEAN : WaitKey(p, quit)

Spec == Init /\ [][Next]_vars

\* runs of main.py that overlap in time (the dashboard starts each run as a
\* detached process): every face is still handled in one piece
NextOverlap ==
    \/ Tick
    \/ \E p \in Procs, args \in ArgLists, conn \in BOOLEAN : Launch(p, args, conn)
    \/ \E p \in Procs, ret \in BOOLEAN : ReadFrame(p, ret)
    \/ \E p \in Procs, dist \in NearVecs : sess[p].faces < OverlapFaces /\ HandleFace(p, dist)
    \/ \E p \in Procs, quit \in BOOLEAN : WaitKey(p, quit)

SpecOverlap == Init /\ [][NextOverlap]_vars

\* the match step alone (lines 152-158), over every distance vector
InitMatch ==
    /\ now = 0
    /\ local = [f \in Subjects |-> <<>>]
    /\ remote = [s \in Subjects |-> <<>>]
    /\ sess = [p \in Procs |-> Idle]
    /\ launches = 0
    /\ \E dist \in DistVecs : ev = [NoEv EXCEPT !.op = "query", !.dist = dist]

MatchStep ==
    /\ ev.op = "query"
    /\ ev' = [ev EXCEPT !.op = "match", !.name = MatchFace(ev.dist)]
    /\ UNCHANGED <<now, local, remote, sess, launches>>

SpecMatch == InitMatch /\ [][MatchStep]_vars

-----------------------------------------------------------------------------
(* Vocabulary of the properties *)

\* the USN a matched stored name carries
UsnOf(full) == SplitOnce(full, "_")[1]

Dates == {DateStr(t) : t \in 0..MaxClock}

\* the data rows of a ledger file that are written for this USN and date
LocalRows(file, usn, date) ==
    {i \in 2..Len(file) : file[i][1] = usn /\ file[i][3] = date}

\* the rows of a worksheet that are written for this USN and date
RemoteRows(ws, usn, date) ==
    {i \in 2..Len(ws) : ws[i][1] = usn /\ ws[i][3] = date}

\* the step just taken called mark_local_csv and mark_google for a face
Marked == ev.op = "face" /\ ev.branch = "new"

\* the ledger file and the worksheet of the step just taken
EvFile == local[AttendanceFile(ev.subject)]

EvSheet == remote[WorksheetOf(ev.subject)]

-----------------------------------------------------------------------------
(* C1: after mark_local_csv has been called for an identifier on a day -   *)
(* once or again - the subject's ledger holds exactly one data row for      *)
(* that identifier and day: the first call appends it, a repeated call      *)
(* appends nothing.                                                         *)
C1_MarkTwiceOneRow ==
    Marked => Cardinality(LocalRows(EvFile, UsnOf(ev.name), ev.today)) = 1

(* C2: with runs one after another, a ledger never holds two rows for one  *)
(* identifier and date.                                                     *)
C2_AtMostOneRowPerUsnDate ==
    \A f \in Subjects, u \in KnownUsns, d \in Dates :
        Cardinality(LocalRows(local[f], u, d)) <= 1

\* the rows a file held before a step are its first rows after it
KeepsRows(f) ==
    /\ Len(local'[f]) >= Len(local[f])
    /\ SubSeq(local'[f], 1, Len(local[f])) = local[f]

(* C3: when the mirror is not connected or its call fails while a          *)
(* recognised identifier with no local row for the day is marked, the       *)
(* ledger gains exactly that one row, the identifier is in already_present  *)
(* afterwards, the run is still in its loop and shows no traceback; and no  *)
(* step ever removes a row from a ledger.                                   *)
C3_LocalSurvivesRemoteFailure ==
    [][ /\ \A f \in Subjects : KeepsRows(f)
        /\ LET p == ev'.p
               f == AttendanceFile(ev'.subject)
               u == UsnOf(ev'.name)
           IN  ( /\ ev'.op = "face"
                 /\ ev'.branch \in {"new", "error"}
                 /\ ~sess[p].connected \/ "sync_failed" \in ev'.out \/ "traceback" \in ev'.out
                 /\ LocalRows(local[f], u, ev'.today) = {} )
               => /\ Len(local'[f]) = Len(EnsureFile(local[f])) + 1
                  /\ Cardinality(LocalRows(local'[f], u, ev'.today)) = 1
                  /\ remote' = remote
                  /\ sess'[p].pc = "faces"
                  /\ u \in sess'[p].already_present
                  /\ "traceback" \notin ev'.out ]_vars

C3_Witness ==
    /\ Marked
    /\ "sync_failed" \in ev.out
    /\ "saved_local" \in ev.out
    /\ sess[ev.p].pc = "faces"
    /\ UsnOf(ev.name) \in sess[ev.p].already_present

(* C4: a step of a run for subject S changes no ledger file and no          *)
(* worksheet but Attendance_S.csv and the tab S, and when it marks an       *)
(* identifier that has no row for the day in Attendance_S.csv, that file    *)
(* holds exactly one such row afterwards.                                   *)
C4_SubjectIsolation ==
    [][ /\ \A f \in Subjects : f # ev'.subject => local'[f] = local[f]
        /\ \A w \in Subjects : w # ev'.subject => remote'[w] = remote[w]
        /\ LET f == ev'.subject
               u == UsnOf(ev'.name)
           IN  ( /\ ev'.op = "face"
                 /\ ev'.branch = "new"
                 /\ LocalRows(local[f], u, ev'.today) = {} )
               => Cardinality(LocalRows(local'[f], u, ev'.today)) = 1 ]_vars

C4_Witness ==
    /\ Marked
    /\ \E u \in KnownUsns, d \in Dates :
         /\ Cardinality(LocalRows(local["General"], u, d)) = 1
         /\ Cardinality(LocalRows(local["Java"], u, d)) = 1

(* C5: when mark_local_csv returns early because the ledger already holds  *)
(* the identifier's row for today, the step writes neither the ledger nor   *)
(* the worksheet.                                                           *)
C5_AlreadyPresentIsNoOp ==
    [][ ( /\ ev'.op = "face"
          /\ ev'.branch = "new"
          /\ "saved_local" \notin ev'.out )
        => (local' = local /\ remote' = remote) ]_vars

(* C6: a step appends at most one row to a worksheet, and none when the     *)
(* worksheet already holds a row with that USN and date; so a worksheet     *)
(* never holds two rows for one USN and date.                               *)
C6_RemoteAppendsOnlyNew ==
    [][ \A w \in Subjects :
          /\ (remote[w] # <<>> /\ remote'[w] # remote[w]) =>
                LET r == remote'[w][Len(remote'[w])]
                IN  /\ remote'[w] = Append(remote[w], r)
                    /\ RemoteRows(remote[w], r[1], r[3]) = {}
          /\ \A u \in KnownUsns, d \in Dates :
                Cardinality(RemoteRows(remote'[w], u, d)) <= 1 ]_vars

(* C7: when a step appends a row to the ledger and a row to the worksheet,  *)
(* the two rows hold the same five values.                                  *)
C7_SameRecordInBothStores ==
    [][ ( /\ ev'.op = "face"
          /\ ev'.branch = "new"
          /\ {"saved_local", "synced"} \subseteq ev'.out )
        => LET f == local'[AttendanceFile(ev'.subject)]
               w == remote'[WorksheetOf(ev'.subject)]
           IN  w[Len(w)] = f[Len(f)] ]_vars

(* C8: a face whose distance to every stored embedding exceeds the          *)
(* tolerance changes no store, prints nothing and leaves the run's          *)
(* already_present, cooldown and count of mark calls as they were.          *)
C8_UnknownRejected ==
    [][ ( /\ ev'.op = "face"
          /\ \A i \in 1..Len(KnownNames) : ev'.dist[i] > Tolerance )
        => /\ local' = local
           /\ remote' = remote
           /\ now' = now
           /\ ev'.out = {}
           /\ sess'[ev'.p].pc = "faces"
           /\ sess'[ev'.p].already_present = sess[ev'.p].already_present
           /\ sess'[ev'.p].cooldown = sess[ev'.p].cooldown
           /\ sess'[ev'.p].marks = sess[ev'.p].marks ]_vars

C8_Witness ==
    /\ ev.op = "face"
    /\ ev.branch = "unknown"
    /\ \A i \in 1..Len(KnownNames) : ev.dist[i] > Tolerance
    /\ sess[ev.p].already_present # {}

\* the reference: the stored name at the first index of least distance when
\* that distance is within the tolerance, <<>> (unknown) otherwise
RefMatch(dist) ==
    LET n == Len(KnownNames)
        i == CHOOSE k \in 1..n :
                /\ \A j \in 1..n : dist[k] <= dist[j]
                /\ \A j \in 1..(k - 1) : dist[j] > dist[k]
    IN  IF dist[i] <= Tolerance THEN KnownNames[i] ELSE <<>>

(* C9: the match step returns what the reference operator returns, for      *)
(* every distance vector.                                                   *)
C9_MatchIsReference ==
    ev.op = "match" => ev.name = RefMatch(ev.dist)

C9_Witness ==
    /\ ev.op = "match"
    /\ ev.dist[1] = Tolerance
    /\ ev.dist[2] = Tolerance
    /\ ev.name = KnownNames[1]

(* C10: a run calls mark_local_csv at most once for an identifier, and a    *)
(* face of an identifier that is in already_present changes no store and    *)
(* is no call.                                                              *)
C10_MarkOncePerRun ==
    /\ [](\A p \in Procs, u \in KnownUsns : sess[p].marks[u] <= 1)
    /\ [][ ( /\ ev'.op = "face"
             /\ ev'.name # <<>>
             /\ UsnOf(ev'.name) \in sess[ev'.p].already_present )
           => /\ local' = local
              /\ remote' = remote
              /\ sess'[ev'.p].marks = sess[ev'.p].marks ]_vars

C10_Witness ==
    /\ ev.op = "face"
    /\ ev.branch = "already"
    /\ sess[ev.p].marks[UsnOf(ev.name)] = 1

\* the runs that are inside take_attendance's loop
Running == {p \in Procs : sess[p].pc \in {"loop", "faces"}}

(* C11: every identifier in a running session's already_present has a row  *)
(* in the subject's ledger whose date is the current date - also after the  *)
(* date has changed while the session runs.                                 *)
C11_PresentAgreesWithLedger ==
    \A p \in Running : \A u \in sess[p].already_present :
        LocalRows(local[sess[p].subject], u, DateStr(now)) # {}

(* C12: "Marked PRESENT" is printed only by a step whose mark_local_csv     *)
(* call appended the row, and a run prints it at most once for an           *)
(* identifier.                                                              *)
C12_ConfirmOnlyWhenCreated ==
    [][ /\ "marked_present" \in ev'.out => "saved_local" \in ev'.out
        /\ \A p \in Procs, u \in KnownUsns :
              ("marked_present" \in ev'.out /\ ev'.p = p /\ UsnOf(ev'.name) = u)
                  => sess[p].marks[u] = 0 ]_vars

-----------------------------------------------------------------------------
(* Failures of the local file system *)

\* what fails inside mark_local_csv: "create" is the open(..., "w") of line
\* 100, "read" is pd.read_csv of line 104, "append" is the open(..., "a") or
\* the write of lines 110-111
LocalFaults == {"create", "read", "append"}

\* the ledger file after a mark_local_csv call that raises: the header has
\* been written when the failure comes after line 101, and no row is appended
FileAfterLocalFault(file, lfault) ==
    IF lfault = "create" THEN file ELSE EnsureFile(file)

\* a variant of MarkLocalFails: the exception of mark_local_csv is swallowed
\* and lines 170-172 go on
MarkLocalFailsQuiet(p, e, usn, student_name, lfault) ==
    LET s == sess[p]
        f == AttendanceFile(s.subject)
        w == WorksheetOf(s.subject)
        mg == MarkGoogle(remote[w], s.connected, usn, student_name, now, now, "none")
    IN  /\ local' = [local EXCEPT ![f] = FileAfterLocalFault(@, lfault)]
        /\ remote' = [remote EXCEPT ![w] = mg.ws]
        /\ sess' = [sess EXCEPT ![p].already_present = AddPresent(@, usn),
                                ![p].faces = @ + 1,
                                ![p].marks[usn] = @ + 1]
        /\ ev' = [e EXCEPT !.branch = "local_error", !.today = DateStr(now),
                           !.out = {"marked_present"}]
        /\ UNCHANGED now

\* lines 169-172 when mark_local_csv raises: nothing catches the exception in
\* mark_local_csv, in take_attendance or at the entry point, so lines 170-172
\* are not reached and the process ends with a traceback
MarkLocalFails(p, e, usn, student_name, lfault) ==
    LET s == sess[p]
        f == AttendanceFile(s.subject)
    IN  /\ local' = [local EXCEPT ![f] = FileAfterLocalFault(@, lfault)]
        /\ sess' = [sess EXCEPT ![p] = Idle]
        /\ ev' = [e EXCEPT !.branch = "local_error", !.today = DateStr(now),
                           !.out = {"traceback", "exit"}]
        /\ UNCHANGED <<now, remote>>

\* lines 151-172 for a face that is matched and not in already_present while
\* the local file system fails
HandleFaceLocalFault(p, dist) ==
    LET s == sess[p]
        full == MatchFace(dist)
        e == [NoEv EXCEPT !.op = "face", !.p = p, !.subject = s.subject, !.dist = dist,
                          !.name = full]
    IN  /\ s.pc = "faces"
        /\ full # <<>>
        /\ Find(full, "_") # 0
        /\ SplitOnce(full, "_")[1] \notin s.already_present
        /\ \E lfault \in LocalFaults :
              /\ lfault = "create" => local[AttendanceFile(s.subject)] = <<>>
              /\ MarkLocalFails(p, e, SplitOnce(full, "_")[1], SplitOnce(full, "_")[2], lfault)
        /\ UNCHANGED launches

\* runs one after another on a file system that can fail
NextFaults ==
    \/ Next
    \/ \E p \in Procs, dist \in NearVecs :
          sess[p].faces < MaxFaces /\ HandleFaceLocalFault(p, dist)

SpecFaults == Init /\ [][NextFaults]_vars

(* C13: no step that handles a face ends the run: after it the run is       *)
(* still in its loop and no traceback has been printed - also when the      *)
(* ledger read or append raises or the stored name has no underscore.       *)
C13_FaceNeverEndsRun ==
    [][ ev'.op = "face" =>
          /\ sess'[ev'.p].pc = "faces"
          /\ "traceback" \notin ev'.out ]_vars

(* C14: when mark_local_csv fails, the step's outcome is neither that of a  *)
(* created record nor that of a record already present, the worksheet        *)
(* gains no row, no confirmation is printed and the identifier is not in    *)
(* already_present afterwards.                                              *)
C14_LocalFailureIsDistinct ==
    [][ (ev'.op = "face" /\ ev'.branch = "local_error") =>
          /\ ev'.out \cap {"saved_local", "marked_present", "synced", "already_marked"} = {}
          /\ "traceback" \in ev'.out
          /\ remote' = remote
          /\ \A f \in Subjects : Len(local'[f]) <= Len(EnsureFile(local[f]))
          /\ UsnOf(ev'.name) \notin sess'[ev'.p].already_present
          /\ sess'[ev'.p].marks = Idle.marks ]_vars

C14_Witness ==
    /\ ev.op = "face"
    /\ ev.branch = "local_error"
    /\ remote[ev.subject] # <<>>
    /\ Len(local[ev.subject]) = 1

-----------------------------------------------------------------------------
(* The suppression cache over a longer stretch of clock time *)

\* the clock of SpecCooldown stops at this tick
MaxCoolClock == 3
\* faces one run handles in SpecCooldown
MaxCoolFaces == 3

\* the clock advances (as Tick, up to MaxCoolClock)
TickCool ==
    /\ now < MaxCoolClock
    /\ now' = now + 1
    /\ ev' = [NoEv EXCEPT !.op = "tick"]
    /\ UNCHANGED <<local, remote, sess, launches>>

\* runs for the default subject one after another, each seeing up to
\* MaxCoolFaces faces while the clock passes the suppression window
NextCooldown ==
    \/ TickCool
    \/ \E p \in Procs, conn \in BOOLEAN : NoRun /\ Launch(p, <<"auto">>, conn)
    \/ \E p \in Procs, ret \in BOOLEAN : ReadFrame(p, ret)
    \/ \E p \in Procs, dist \in NearVecs : sess[p].faces < MaxCoolFaces /\ HandleFace(p, dist)
    \/ \E p \in Procs, quit \in BOOLEAN : WaitKey(p, quit)

SpecCooldown == Init /\ [][NextCooldown]_vars


\* the branch of lines 151-185 a face takes, told without the cooldown map
BranchOf(full, already_present) ==
    IF full = <<>> THEN "unknown"
    ELSE IF UsnOf(full) \in already_present THEN "already" ELSE "new"

(* C15: the branch a face takes does not depend on the cooldown map; the    *)
(* cooldown map changes only on the already-marked branch, and that branch  *)
(* leaves the ledgers, the worksheets, already_present and the count of     *)
(* mark calls as they were.                                                 *)
C15_CooldownTouchesNoStore ==
    [][ ev'.op = "face" =>
          LET p == ev'.p IN
          /\ ev'.branch = BranchOf(ev'.name, sess[p].already_present)
          /\ ev'.branch = "already" =>
                /\ local' = local
                /\ remote' = remote
                /\ sess'[p].already_present = sess[p].already_present
                /\ sess'[p].marks = sess[p].marks
          /\ ev'.branch # "already" => sess'[p].cooldown = sess[p].cooldown ]_vars

C15_Witness ==
    /\ ev.op = "face"
    /\ ev.branch = "already"
    /\ "already_marked" \in ev.out
    /\ Timestamp(now) - CooldownSeconds > 0
    /\ local[ev.subject] # <<>>
    /\ remote[ev.subject] # <<>>

\* the notice of line 165
Notice == "already_marked"

(* C16: in a run, a notice for an identifier that has had one before comes  *)
(* more than 5 seconds of clock time after that one; the first              *)
(* re-observation of a run always gives a notice; a re-observation within   *)
(* the window gives none and leaves the time of the last notice as it was.  *)
C16_NoticesApart ==
    [][ /\ (ev'.op = "launch" /\ ev'.p \in Procs) => sess'[ev'.p].cooldown = NoCooldown
        /\ (ev'.op = "face" /\ ev'.branch = "already") =>
              LET p == ev'.p
                  u == UsnOf(ev'.name)
                  c == sess[p].cooldown
                  ts == Timestamp(now)
              IN  /\ u \notin DOMAIN c => Notice \in ev'.out
                  /\ (u \in DOMAIN c /\ Notice \in ev'.out) => ts - c[u] > 5
                  /\ (u \in DOMAIN c /\ ts - c[u] <= 5) =>
                        (Notice \notin ev'.out /\ sess'[p].cooldown = c)
                  /\ Notice \in ev'.out =>
                        (sess'[p].cooldown[u] = ts
                           /\ \A k \in DOMAIN c \ {u} : sess'[p].cooldown[k] = c[k])
        /\ (ev'.op = "face" /\ ev'.branch \in {"new", "unknown"}) =>
              (Notice \notin ev'.out /\ sess'[ev'.p].cooldown = sess[ev'.p].cooldown)
        /\ ev'.op \in {"tick", "frame", "key"} =>
              \A p \in Procs : sess'[p].pc # "idle" => sess'[p].cooldown = sess[p].cooldown ]_vars

C16_Witness ==
    /\ ev.op = "face"
    /\ ev.branch = "already"
    /\ ev.out = {}
    /\ UsnOf(ev.name) \in DOMAIN sess[ev.p].cooldown
    /\ Timestamp(now) - sess[ev.p].cooldown[UsnOf(ev.name)] = 5

\* a second notice for an identifier, given once the window had passed
C16_WitnessSecondNotice ==
    /\ ev.op = "face"
    /\ ev.branch = "already"
    /\ Notice \in ev.out
    /\ sess[ev.p].faces = 3
    /\ sess[ev.p].marks[UsnOf(ev.name)] = 1
    /\ \A u \in KnownUsns \ {UsnOf(ev.name)} :
          u \notin sess[ev.p].already_present

-----------------------------------------------------------------------------
(* From the registration form to the ledger row: what is typed into the    *)
(* two entry fields becomes a folder name, the folder name becomes a        *)
(* stored name, and the stored name becomes the row mark_local_csv writes.  *)

\* longest text typed into an entry field
MaxTyped == 2

\* the characters typed into the USN and the name field
UsnChars == {"a", "1", "_", " "}

NameChars == {"R", ",", "_", " "}

TextsOver(chars) == UNION {[1..n -> chars] : n \in 1..MaxTyped}

\* str.upper() of one character
UpperChar(c) == IF c = "a" THEN "A" ELSE c

\* str.upper()
Upper(s) == [i \in 1..Len(s) |-> UpperChar(s[i])]

\* str.strip(): without the blanks at both ends
RECURSIVE Strip(_)
Strip(s) ==
    IF s = <<>> THEN s
    ELSE IF s[1] = " " THEN Strip(Tail(s))
    ELSE IF s[Len(s)] = " " THEN Strip(SubSeq(s, 1, Len(s) - 1))
    ELSE s

\* f"{usn}_{name}": the folder capture_photos makes
FolderName(usn, name) == usn \o <<"_">> \o name

InitRow ==
    /\ now = 0
    /\ local = [f \in Subjects |-> <<>>]
    /\ remote = [s \in Subjects |-> <<>>]
    /\ sess = [p \in Procs |-> Idle]
    /\ launches = 0
    /\ \E u \in TextsOver(UsnChars), n \in TextsOver(NameChars) :
          ev = [op |-> "typed", usn |-> u, name |-> n, folder |-> <<>>]

\* capture_photos: both fields are needed, then the folder is made
CapturePhotos ==
    LET usn == Upper(Strip(ev.usn))
        name == Strip(ev.name)
    IN  /\ ev.op = "typed"
        /\ IF usn = <<>> \/ name = <<>>
           THEN ev' = [ev EXCEPT !.op = "rejected"]
           ELSE ev' = [ev EXCEPT !.op = "enrolled", !.usn = usn, !.name = name,
                                 !.folder = FolderName(usn, name)]
        /\ UNCHANGED <<now, local, remote, sess, launches>>

\* generate_face_encodings_thread stores f"{usn}_{name}" of the folder's two
\* parts; take_attendance splits the stored name again and marks it
MarkEnrolled ==
    LET parts == SplitOnce(ev.folder, "_")
        full == FolderName(parts[1], parts[2])
        usn == SplitOnce(full, "_")[1]
        student_name == SplitOnce(full, "_")[2]
        f == AttendanceFile("General")
    IN  /\ ev.op = "enrolled"
        /\ local' = [local EXCEPT ![f] = MarkLocalCsv(@, usn, student_name, now, now).file]
        /\ ev' = [ev EXCEPT !.op = "marked", !.usn = usn, !.name = student_name]
        /\ UNCHANGED <<now, remote, sess, launches>>

NextRow == CapturePhotos \/ MarkEnrolled

SpecRow == InitRow /\ [][NextRow]_vars

(* C17: the first line of every ledger is USN,Name,Date,Time,Status and     *)
(* every other line splits at the commas into exactly five fields, the      *)
(* last of them PRESENT - for every identity the registration form takes.   *)
C17_RowsSplitIntoFive ==
    \A f \in Subjects :
        local[f] # <<>> =>
            /\ local[f][1] = <<T_USN, T_Name, T_Date, T_Time, T_Status>>
            /\ \A i \in 2..Len(local[f]) :
                  /\ Len(local[f][i]) = 5
                  /\ local[f][i][5] = T_PRESENT


(* C18: every step leaves each ledger file as a prefix of what it is        *)
(* afterwards: a file that exists keeps its header and its rows in place    *)
(* and gains at most one row, and a file that does not exist is at most     *)
(* created with the header and one row.                                     *)
C18_LedgerAppendOnly ==
    [][ \A f \in Subjects :
          IF local[f] = <<>>
          THEN \/ local'[f] = <<>>
               \/ /\ local'[f][1] = HeaderLine
                  /\ Len(local'[f]) <= 2
          ELSE /\ Len(local'[f]) \in {Len(local[f]), Len(local[f]) + 1}
               /\ \A i \in 1..Len(local[f]) : local'[f][i] = local[f][i] ]_vars

C18_Witness ==
    /\ Marked
    /\ "saved_local" \in ev.out
    /\ Len(local[ev.subject]) = 3
    /\ local[ev.subject][2][1] # local[ev.subject][3][1]

-----------------------------------------------------------------------------
(* mark_local_csv call by call on the file, with a reader of the ledger     *)
(* (dashboard.py's load_attendance_for_subject) running beside it.  The     *)
(* run's position inside the call is kept in its pc, the identity being     *)
(* marked and the date the call read in its full_name and mark_today.  A    *)
(* row is written by one write call and is taken to appear in one piece.    *)

\* os.path.exists(file): a file opened by line 100 exists, with nothing in
\* it, until the with block of lines 100-101 is left
FileExists(f) ==
    \/ local[f] # <<>>
    \/ \E p \in Procs : sess[p].pc = "m_created" /\ AttendanceFile(sess[p].subject) = f

\* lines 151-168 and 96-97: a matched face that is not in already_present
\* enters mark_local_csv, which reads the clock
BeginMark(p, dist) ==
    LET s == sess[p]
        full == MatchFace(dist)
    IN  /\ s.pc = "faces"
        /\ full # <<>>
        /\ Find(full, "_") # 0
        /\ SplitOnce(full, "_")[1] \notin s.already_present
        /\ sess' = [sess EXCEPT ![p].pc = "m_start", ![p].full_name = full,
                                ![p].mark_today = DateStr(now)]
        /\ ev' = [NoEv EXCEPT !.op = "mark", !.p = p, !.subject = s.subject, !.dist = dist,
                              !.name = full, !.branch = "new", !.today = DateStr(now)]
        /\ UNCHANGED <<now, local, remote, launches>>

\* lines 99-100: os.path.exists, and open(..., "w") when the file is not there
CreateFile(p) ==
    /\ sess[p].pc = "m_start"
    /\ sess' = [sess EXCEPT ![p].pc =
                   IF FileExists(AttendanceFile(sess[p].subject)) THEN "m_read" ELSE "m_created"]
    /\ ev' = [NoEv EXCEPT !.op = "mark", !.p = p, !.subject = sess[p].subject,
                          !.name = sess[p].full_name, !.branch = "new",
                          !.today = sess[p].mark_today]
    /\ UNCHANGED <<now, local, remote, launches>>

\* line 101 and the end of the with block: the header reaches the file
WriteHeader(p) ==
    /\ sess[p].pc = "m_created"
    /\ local' = [local EXCEPT ![AttendanceFile(sess[p].subject)] = <<HeaderLine>>]
    /\ sess' = [sess EXCEPT ![p].pc = "m_read"]
    /\ ev' = [NoEv EXCEPT !.op = "mark", !.p = p, !.subject = sess[p].subject,
                          !.name = sess[p].full_name, !.branch = "new",
                          !.today = sess[p].mark_today]
    /\ UNCHANGED <<now, remote, launches>>

\* lines 104-108: the file is read and searched for the row
ReadLedger(p) ==
    LET usn == SplitOnce(sess[p].full_name, "_")[1]
        found == DfHasUsnDate(local[AttendanceFile(sess[p].subject)], usn,
                              sess[p].mark_today)
    IN  /\ sess[p].pc = "m_read"
        /\ IF local[AttendanceFile(sess[p].subject)] = <<>>
           THEN \* another run has made the file and not yet written its header:
                \* pd.read_csv raises EmptyDataError, which nothing catches
                /\ sess' = [sess EXCEPT ![p] = Idle]
                /\ ev' = [NoEv EXCEPT !.op = "mark", !.p = p, !.subject = sess[p].subject,
                                      !.name = sess[p].full_name, !.branch = "local_error",
                                      !.today = sess[p].mark_today,
                                      !.out = {"traceback", "exit"}]
           ELSE /\ sess' = [sess EXCEPT ![p].pc = IF found THEN "m_google" ELSE "m_append"]
                /\ ev' = [NoEv EXCEPT !.op = "mark", !.p = p, !.subject = sess[p].subject,
                                      !.name = sess[p].full_name, !.branch = "new",
                                      !.today = sess[p].mark_today]
        /\ UNCHANGED <<now, local, remote, launches>>

\* lines 110-113: the row is appended
AppendRow(p) ==
    LET parts == SplitOnce(sess[p].full_name, "_")
        f == AttendanceFile(sess[p].subject)
    IN  /\ sess[p].pc = "m_append"
        /\ local' = [local EXCEPT ![f] =
                        Append(@, Line(FormatRow(parts[1], parts[2], sess[p].mark_today,
                                                 TimeStr(now))))]
        /\ sess' = [sess EXCEPT ![p].pc = "m_saved"]
        /\ ev' = [NoEv EXCEPT !.op = "mark", !.p = p, !.subject = sess[p].subject,
                              !.name = sess[p].full_name, !.branch = "new",
                              !.today = sess[p].mark_today, !.out = {"saved_local"}]
        /\ UNCHANGED <<now, remote, launches>>

\* lines 170-172: mark_google, already_present.add and the confirmation
FinishMark(p, fault) ==
    LET parts == SplitOnce(sess[p].full_name, "_")
        s == sess[p]
        w == WorksheetOf(s.subject)
        mg == MarkGoogle(remote[w], s.connected, parts[1], parts[2], now, now, fault)
    IN  /\ s.pc \in {"m_google", "m_saved"}
        /\ remote' = [remote EXCEPT ![w] = mg.ws]
        /\ sess' = [sess EXCEPT ![p].pc = "faces",
                                ![p].already_present = AddPresent(@, parts[1]),
                                ![p].faces = @ + 1,
                                ![p].marks[parts[1]] = @ + 1,
                                ![p].full_name = <<>>,
                                ![p].mark_today = <<>>]
        /\ ev' = [NoEv EXCEPT !.op = "face", !.p = p, !.subject = s.subject,
                              !.name = s.full_name, !.branch = "new",
                              !.today = s.mark_today,
                              !.out = (IF s.pc = "m_saved" THEN {"saved_local"} ELSE {})
                                \cup {"marked_present"}
                                \cup (IF mg.synced THEN {"synced"} ELSE {})
                                \cup (IF mg.warned THEN {"sync_failed"} ELSE {})]
        /\ UNCHANGED <<now, local, launches>>

\* dashboard.py load_attendance_for_subject: os.path.exists, then pd.read_csv,
\* which raises EmptyDataError on a file with nothing in it
LoadAttendanceForSubject(subject) ==
    LET f == AttendanceFile(subject)
        seen == IF ~FileExists(f) THEN "no_file"
                ELSE IF local[f] = <<>> THEN "file_without_header"
                ELSE IF \A i \in 2..Len(local[f]) : Len(local[f][i]) = Len(local[f][1])
                     THEN "whole_rows"
                ELSE "partial_row"
    IN  /\ ev' = [ev EXCEPT !.op = "observe", !.subject = subject, !.out = {seen}]
        /\ UNCHANGED <<now, local, remote, sess, launches>>

\* one run at a time, its mark_local_csv calls taken apart, and a reader
NextAtomic ==
    \/ \E p \in Procs, args \in ArgLists, conn \in BOOLEAN : NoRun /\ Launch(p, args, conn)
    \/ \E p \in Procs, ret \in BOOLEAN : ReadFrame(p, ret)
    \/ \E p \in Procs, dist \in NearVecs : sess[p].faces < MaxFaces /\ BeginMark(p, dist)
    \/ \E p \in Procs, dist \in NearVecs :
          /\ sess[p].faces < MaxFaces
          /\ BranchOf(MatchFace(dist), sess[p].already_present) # "new"
          /\ HandleFace(p, dist)
    \/ \E p \in Procs : CreateFile(p)
    \/ \E p \in Procs : WriteHeader(p)
    \/ \E p \in Procs : ReadLedger(p)
    \/ \E p \in Procs : AppendRow(p)
    \/ \E p \in Procs, fault \in RemoteFaults : FinishMark(p, fault)
    \/ \E p \in Procs, quit \in BOOLEAN : WaitKey(p, quit)
    \/ \E subject \in Subjects : ev.op # "observe" /\ LoadAttendanceForSubject(subject)

SpecAtomic == Init /\ [][NextAtomic]_vars

(* C19: a reader of a ledger file that runs beside mark_local_csv finds     *)
(* either no file or a file that starts with the header and holds whole     *)
(* rows only - never a file that exists without its header line, never a    *)
(* part of a row.                                                           *)
C19_ReaderSeesWholeFile ==
    ev.op = "observe" => ev.out \subseteq {"no_file", "whole_rows"}


(* C20: (a) when, with the clock standing still during the step, a face is  *)
(* marked whose identifier has a row for today in the worksheet and none    *)
(* in the ledger, the ledger gains its row and the worksheet is left as it  *)
(* is; (b) when a run sees a face whose identifier already had a row in     *)
(* the ledger for the run's day when the run started (runs do not overlap,  *)
(* and this run has not marked it), the step writes to neither store.       *)
C20_RemoteNeverOverridesLocal ==
    [][ ev'.op = "face" /\ ev'.name # <<>> =>
          LET p == ev'.p
              s == ev'.subject
              u == UsnOf(ev'.name)
              d == DateStr(now)
          IN  /\ ( /\ ev'.branch = "new"
                   /\ now' = now
                   /\ RemoteRows(remote[s], u, d) # {}
                   /\ LocalRows(local[s], u, d) = {} )
                 => /\ Cardinality(LocalRows(local'[s], u, d)) = 1
                    /\ remote' = remote
              /\ ( /\ LocalRows(local[s], u, sess[p].today) # {}
                   /\ sess[p].marks[u] = 0 )
                 => /\ local' = local
                    /\ remote' = remote ]_vars

-----------------------------------------------------------------------------
(* Starting a run when the snapshot file or the camera is missing *)

\* the exit status of the python process: 1 after an uncaught exception, 0
\* when the script runs to its end (main.py never calls sys.exit)
ExitStatus(out) == IF "traceback" \in out THEN 1 ELSE 0

\* a variant of LaunchNoEncodings: the snapshot file is not looked for
LaunchUnchecked(p, args, conn) ==
    /\ Len(args) >= 1 /\ args[1] = "auto"
    /\ sess[p].pc = "idle"
    /\ \A q \in Procs : q < p => sess[q].pc # "idle"
    /\ launches < MaxLaunch
    /\ launches' = launches + 1
    /\ remote' = ConnectWorksheet(remote, SubjectOf(args), conn)
    /\ sess' = [sess EXCEPT ![p] =
                   [Idle EXCEPT !.pc = "loop", !.subject = SubjectOf(args), !.connected = conn,
                                !.today = DateStr(now)]]
    /\ ev' = [NoEv EXCEPT !.op = "launch", !.p = p, !.subject = SubjectOf(args),
                          !.out = {"camera_started"}]
    /\ UNCHANGED <<now, local>>

\* python main.py auto ... while face_encodings.pkl does not exist: the
\* module-level code (lines 17-68) runs, then take_attendance returns at
\* lines 121-123 and the process ends
LaunchNoEncodings(p, args, conn) ==
    /\ Len(args) >= 1 /\ args[1] = "auto"
    /\ sess[p].pc = "idle"
    /\ \A q \in Procs : q < p => sess[q].pc # "idle"
    /\ launches < MaxLaunch
    /\ launches' = launches + 1
    /\ remote' = ConnectWorksheet(remote, SubjectOf(args), conn)
    /\ ev' = [NoEv EXCEPT !.op = "launch", !.p = p, !.subject = SubjectOf(args),
                          !.out = {"no_encodings", "exit"}]
    /\ UNCHANGED <<now, local, sess>>

\* python main.py auto ... while the camera cannot be opened: VideoCapture
\* (line 128) returns a capture that is not open, line 129 prints, lines
\* 131-140 run, the first cap.read() (line 143) gives ret = False, the loop
\* is left at line 145 and the process ends (lines 191-192)
LaunchNoCamera(p, args, conn) ==
    /\ Len(args) >= 1 /\ args[1] = "auto"
    /\ sess[p].pc = "idle"
    /\ \A q \in Procs : q < p => sess[q].pc # "idle"
    /\ launches < MaxLaunch
    /\ launches' = launches + 1
    /\ remote' = ConnectWorksheet(remote, SubjectOf(args), conn)
    /\ ev' = [NoEv EXCEPT !.op = "launch", !.p = p, !.subject = SubjectOf(args),
                          !.out = {"camera_started", "exit"}]
    /\ UNCHANGED <<now, local, sess>>

\* runs one after another, some started without snapshot file or camera
NextStart ==
    \/ Next
    \/ \E p \in Procs, args \in ArgLists, conn \in BOOLEAN :
          NoRun /\ LaunchNoEncodings(p, args, conn)
    \/ \E p \in Procs, args \in ArgLists, conn \in BOOLEAN :
          NoRun /\ LaunchNoCamera(p, args, conn)

SpecStart == Init /\ [][NextStart]_vars

\* the worksheets hold the same attendance rows before and after the step:
\* at most a tab with its header row has been made
SameRemoteRows ==
    \A w \in Subjects :
        \/ remote'[w] = remote[w]
        \/ remote[w] = <<>> /\ remote'[w] = <<HeaderRow>>

(* C21: a run started while no snapshot file exists reports that students   *)
(* must be registered first and ends: it does not start the camera, enters  *)
(* no loop and writes no row to a ledger or a worksheet.                    *)
C21_NoSnapshotNoRun ==
    [][ \A p \in Procs, args \in ArgLists, conn \in BOOLEAN :
          LaunchNoEncodings(p, args, conn) =>
              /\ ev'.out = {"no_encodings", "exit"}
              /\ \A q \in Procs : sess'[q].pc = "idle"
              /\ local' = local
              /\ SameRemoteRows ]_vars

C21_Witness ==
    /\ ev.op = "launch"
    /\ "no_encodings" \in ev.out
    /\ ev.subject = "Java"
    /\ remote["Java"] = <<HeaderRow>>
    /\ local["General"] # <<>>

\* sys.argv[1:] has the form auto <subject>
WellFormedArgs(args) == Len(args) = 2 /\ args[1] = "auto"

(* C22: a run whose arguments are not of the form auto <subject> prints     *)
(* the usage message, exits with a nonzero status, enters no loop and       *)
(* writes no ledger.                                                        *)
C22_OnlyAutoSubjectAccepted ==
    [][ \A p \in Procs, args \in ArgLists, conn \in BOOLEAN :
          (Launch(p, args, conn) /\ ~WellFormedArgs(args)) =>
              /\ "usage" \in ev'.out
              /\ ExitStatus(ev'.out) # 0
              /\ sess' = sess
              /\ local' = local ]_vars

(* C24: a run started while the camera cannot be opened reports a fatal     *)
(* error, once, and handles no frame; what it prints differs from what a    *)
(* failed read in the middle of the loop prints.                            *)
C24_CameraOpenFailureReported ==
    [][ \A p \in Procs, args \in ArgLists, conn \in BOOLEAN :
          LaunchNoCamera(p, args, conn) =>
              /\ "camera_error" \in ev'.out
              /\ "camera_started" \notin ev'.out
              /\ sess' = sess ]_vars


\* lines 191-192 are reached: the loop was left by one of its two breaks
CameraReleased(out) == "exit" \in out /\ "traceback" \notin out

(* C23: a run leaves its loop only by a failed camera read (at the start    *)
(* of a frame) or by the q key (after the frame's faces have been           *)
(* handled); the step that ends it releases the camera and writes nothing   *)
(* to a ledger or a worksheet.                                              *)
C23_LoopEndsOnKeyOrFailedRead ==
    [][ \A p \in Procs :
          (sess[p].pc \in {"loop", "faces"} /\ sess'[p].pc = "idle") =>
              /\ \/ ev'.op = "frame" /\ sess[p].pc = "loop"
                 \/ ev'.op = "key" /\ sess[p].pc = "faces"
              /\ ev'.p = p
              /\ CameraReleased(ev'.out)
              /\ local' = local
              /\ remote' = remote ]_vars

-----------------------------------------------------------------------------
(* Two runs for one subject at the same time, every file and worksheet      *)
(* call a step of its own                                                   *)

\* mark_google lines 75-85: the worksheet's records are read and searched;
\* fault "read" makes get_all_records raise
ReadWorksheet(p, fault) ==
    LET s == sess[p]
        usn == SplitOnce(s.full_name, "_")[1]
        w == WorksheetOf(s.subject)
        found == RecordsHaveUsnDate(remote[w], usn, DateStr(now))
        failed == s.connected /\ fault = "read"
    IN  /\ s.pc \in {"m_google", "m_saved"}
        /\ sess' = [sess EXCEPT ![p].pc =
                       IF s.connected /\ ~failed /\ ~found THEN "g_append" ELSE "g_done"]
        /\ ev' = [NoEv EXCEPT !.op = "mark", !.p = p, !.subject = s.subject,
                              !.name = s.full_name, !.branch = "new", !.today = s.mark_today,
                              !.out = IF failed THEN {"sync_failed"} ELSE {}]
        /\ UNCHANGED <<now, local, remote, launches>>

\* mark_google lines 86-89: the row is appended; fault "append" makes
\* append_row raise
AppendWorksheet(p, fault) ==
    LET s == sess[p]
        parts == SplitOnce(s.full_name, "_")
        w == WorksheetOf(s.subject)
    IN  /\ s.pc = "g_append"
        /\ remote' = [remote EXCEPT ![w] =
                         IF fault = "append" THEN @
                         ELSE Append(@, <<parts[1], parts[2], DateStr(now), TimeStr(now),
                                          T_PRESENT>>)]
        /\ sess' = [sess EXCEPT ![p].pc = "g_done"]
        /\ ev' = [NoEv EXCEPT !.op = "mark", !.p = p, !.subject = s.subject,
                              !.name = s.full_name, !.branch = "new", !.today = s.mark_today,
                              !.out = IF fault = "append" THEN {"sync_failed"} ELSE {"synced"}]
        /\ UNCHANGED <<now, local, launches>>

\* lines 171-172: already_present.add and the confirmation
ConfirmMark(p) ==
    LET s == sess[p]
        usn == SplitOnce(s.full_name, "_")[1]
    IN  /\ s.pc = "g_done"
        /\ sess' = [sess EXCEPT ![p].pc = "faces",
                                ![p].already_present = AddPresent(@, usn),
                                ![p].faces = @ + 1,
                                ![p].marks[usn] = @ + 1,
                                ![p].full_name = <<>>,
                                ![p].mark_today = <<>>]
        /\ ev' = [NoEv EXCEPT !.op = "face", !.p = p, !.subject = s.subject,
                              !.name = s.full_name, !.branch = "new", !.today = s.mark_today,
                              !.out = {"marked_present"}]
        /\ UNCHANGED <<now, local, remote, launches>>

\* runs that overlap, their file and worksheet calls interleaved
NextRace ==
    \/ \E p \in Procs, args \in ArgLists, conn \in BOOLEAN : Launch(p, args, conn)
    \/ \E p \in Procs, ret \in BOOLEAN : ReadFrame(p, ret)
    \/ \E p \in Procs, dist \in NearVecs : sess[p].faces < OverlapFaces /\ BeginMark(p, dist)
    \/ \E p \in Procs, dist \in NearVecs :
          /\ sess[p].faces < OverlapFaces
          /\ BranchOf(MatchFace(dist), sess[p].already_present) # "new"
          /\ HandleFace(p, dist)
    \/ \E p \in Procs : CreateFile(p)
    \/ \E p \in Procs : WriteHeader(p)
    \/ \E p \in Procs : ReadLedger(p)
    \/ \E p \in Procs : AppendRow(p)
    \/ \E p \in Procs, fault \in {"none", "read"} : ReadWorksheet(p, fault)
    \/ \E p \in Procs, fault \in {"none", "append"} : AppendWorksheet(p, fault)
    \/ \E p \in Procs : ConfirmMark(p)
    \/ \E p \in Procs, quit \in BOOLEAN : WaitKey(p, quit)

SpecRace == Init /\ [][NextRace]_vars

(* C25: with two runs for one subject at the same time, no ledger holds     *)
(* two rows for one identifier and date and no worksheet holds two rows     *)
(* for one USN and date.                                                    *)
C25_OneRowUnderConcurrency ==
    \A s \in Subjects, u \in KnownUsns, d \in Dates :
        /\ Cardinality(LocalRows(local[s], u, d)) <= 1
        /\ Cardinality(RemoteRows(remote[s], u, d)) <= 1

-----------------------------------------------------------------------------
(* The admin dashboard's global attendance file attendance.csv, its         *)
(* backups, and the per-subject ledgers beside it.  In this part local      *)
(* also holds attendance.csv and the set of backup files written so far,    *)
(* and sess holds the dashboard's current_date.                             *)

\* lines a per-subject ledger holds when a mark is still taken in this part
MaxAdminRows == 2
\* backup files written at most
MaxBackups == 2

\* attendance.csv (admin_dashboard.py line 90)
AdminFile == "attendance"

\* the backups folder (admin_dashboard.py line 95)
BackupDir == "backups"

\* ",".join(fields)
RECURSIVE JoinFields(_)
JoinFields(fields) ==
    IF Len(fields) = 1 THEN fields[1]
    ELSE fields[1] \o Comma \o JoinFields(Tail(fields))

\* row.strip().split(",") of a line of the file
StripSplit(line) == Split(Strip(JoinFields(line)), ",")

\* mark_attendance (admin_dashboard.py lines 122-143): the file is read as
\* text, line by line, the header among them
MarkAttendance(file, usn, name, tToday, tTime) ==
    LET f == IF file = <<>> THEN <<HeaderLine>> ELSE file
        today == DateStr(tToday)
        time_now == TimeStr(tTime)
        already == \E i \in 1..Len(f) :
                       LET row == StripSplit(f[i])
                       IN  Len(row) >= 3 /\ row[1] = usn /\ row[3] = today
    IN  IF already
        THEN [file |-> f, saved |-> FALSE]
        ELSE [file |-> Append(f, Line(FormatRow(usn, name, today, time_now))), saved |-> TRUE]

\* pd.read_csv(file).to_csv(path, index=False): a column read as integers
\* is written as integers
ReadCsvToCsv(file) ==
    [i \in 1..Len(file) |->
        IF i = 1 THEN file[1]
        ELSE [k \in 1..Len(file[i]) |->
                 IF ColumnIsInt(file, k) THEN IntToStr(ParseInt(file[i][k])) ELSE file[i][k]]]

\* create_backup (admin_dashboard.py lines 104-115): bfault says that reading
\* the file or writing the backup raises
CreateBackup(file, bfault) ==
    IF file = <<>> THEN [made |-> FALSE, content |-> <<>>]
    ELSE IF bfault THEN [made |-> FALSE, content |-> <<>>]
    ELSE [made |-> TRUE, content |-> ReadCsvToCsv(file)]

NoAdminEv ==
    [op |-> "init", subject |-> "", usn |-> <<>>, subject_saved |-> FALSE,
     admin_saved |-> FALSE, backup_made |-> FALSE]

InitAdmin ==
    /\ now = 0
    /\ local = [f \in Subjects \cup {AdminFile} |-> <<>>] @@ (BackupDir :> {})
    /\ remote = [s \in Subjects |-> <<>>]
    /\ sess = [current_date |-> DateStr(0)]
    /\ launches = 0
    /\ ev = NoAdminEv

\* the clock advances
TickAdmin ==
    /\ now < MaxClock
    /\ now' = now + 1
    /\ ev' = [NoAdminEv EXCEPT !.op = "tick"]
    /\ UNCHANGED <<local, remote, sess, launches>>

\* a student is marked for a class of this subject through both paths:
\* mark_local_csv on the subject's file and mark_attendance on attendance.csv
MarkBothPaths(subject, full) ==
    LET usn == SplitOnce(full, "_")[1]
        name == SplitOnce(full, "_")[2]
        ml == MarkLocalCsv(local[AttendanceFile(subject)], usn, name, now, now)
        ma == MarkAttendance(local[AdminFile], usn, name, now, now)
    IN  /\ Len(local[AttendanceFile(subject)]) <= MaxAdminRows
        /\ local' = [local EXCEPT ![AttendanceFile(subject)] = ml.file,
                                  ![AdminFile] = ma.file]
        /\ ev' = [NoAdminEv EXCEPT !.op = "mark_both", !.subject = subject, !.usn = usn,
                                   !.subject_saved = ml.saved, !.admin_saved = ma.saved]
        /\ UNCHANGED <<now, remote, sess, launches>>

\* the file after admin_dashboard.py lines 1177-1178 and 821-822
ResetFile == <<HeaderLine>>

\* clear_previous_attendance (admin_dashboard.py lines 1167-1185); confirm
\* is the answer to the question box
ClearPreviousAttendance(confirm, bfault) ==
    LET b == CreateBackup(local[AdminFile], bfault)
    IN  /\ Cardinality(local[BackupDir]) < MaxBackups
        /\ IF confirm
           THEN /\ local' = [local EXCEPT ![AdminFile] = ResetFile,
                                          ![BackupDir] = IF b.made THEN @ \cup {b.content} ELSE @]
                /\ ev' = [NoAdminEv EXCEPT !.op = "clear", !.backup_made = b.made]
           ELSE /\ local' = local
                /\ ev' = [NoAdminEv EXCEPT !.op = "clear_declined"]
        /\ UNCHANGED <<now, remote, sess, launches>>

\* check_date_rollover (admin_dashboard.py lines 817-825), run by the timer
CheckDateRollover(bfault) ==
    LET b == CreateBackup(local[AdminFile], bfault)
        today == DateStr(now)
    IN  /\ Cardinality(local[BackupDir]) < MaxBackups
        /\ IF today # sess.current_date
           THEN /\ local' = [local EXCEPT ![AdminFile] = ResetFile,
                                          ![BackupDir] = IF b.made THEN @ \cup {b.content} ELSE @]
                /\ sess' = [sess EXCEPT !.current_date = today]
                /\ ev' = [NoAdminEv EXCEPT !.op = "rollover", !.backup_made = b.made]
           ELSE /\ local' = local
                /\ sess' = sess
                /\ ev' = [NoAdminEv EXCEPT !.op = "rollover_check"]
        /\ UNCHANGED <<now, remote, launches>>

NextAdmin ==
    \/ TickAdmin
    \/ \E subject \in Subjects, i \in 1..Len(KnownNames) : MarkBothPaths(subject, KnownNames[i])
    \/ \E confirm \in BOOLEAN, bfault \in BOOLEAN : ClearPreviousAttendance(confirm, bfault)
    \/ \E bfault \in BOOLEAN : CheckDateRollover(bfault)

SpecAdmin == InitAdmin /\ [][NextAdmin]_vars

(* C26: attendance.csv never holds two rows for one USN and date, and       *)
(* mark_attendance records a student for a class exactly when the student   *)
(* has no row yet for that class's subject and day - the key of the         *)
(* per-subject ledgers.                                                     *)
C26_SameKeyOnBothPaths ==
    /\ [](\A u \in KnownUsns, d \in Dates :
              Cardinality(LocalRows(local[AdminFile], u, d)) <= 1)
    /\ [][ ev'.op = "mark_both" =>
              (LocalRows(local[ev'.subject], ev'.usn, DateStr(now)) = {}
                  <=> ev'.admin_saved) ]_vars

\* the first half of C26 alone
AdminFileOneRow ==
    \A u \in KnownUsns, d \in Dates : Cardinality(LocalRows(local[AdminFile], u, d)) <= 1

(* C28: a step that resets attendance.csv while it holds rows has written   *)
(* a backup file with exactly the lines the file held; when no such backup  *)
(* is written the file is left as it was.                                   *)
C28_BackupBeforeClear ==
    [][ (ev'.op \in {"clear", "rollover"} /\ Len(local[AdminFile]) > 1) =>
            \/ local[AdminFile] \in local'[BackupDir]
            \/ local'[AdminFile] = local[AdminFile] ]_vars


-----------------------------------------------------------------------------
(* The roster students.csv (register_student.py): ensure_student_in_csv     *)
(* reads the file with pandas, looks the USN up ignoring letter case and,   *)
(* when it is absent, appends a row and writes the whole table back.        *)

\* most data rows of the roster
MaxRoster == 3

StudentsFile == "students"

RosterHeader == <<T_USN, T_Name>>

\* the USNs and names ensure_student_in_csv is called with
RosterUsns == { <<"a", "1">>, <<"A", "1">>, <<"0", "7">>, <<"7">> }

RosterNames == { <<"R">>, <<"S">> }

\* (df["USN"].astype(str).str.upper() == usn_up).any()
UsnInRoster(file, usn_up) ==
    \E i \in 1..NumDataRows(file) : Upper(AsTypeStr(Cell(file, i, T_USN))) = usn_up

\* ensure_student_in_csv (register_student.py lines 80-89)
EnsureStudentInCsv(file, usn, name) ==
    LET f == IF file = <<>> THEN <<RosterHeader>> ELSE file
        usn_up == Upper(usn)
    IN  IF UsnInRoster(f, usn_up)
        THEN [file |-> f, added |-> FALSE]
        ELSE [file |-> Append(ReadCsvToCsv(f), <<usn_up, name>>), added |-> TRUE]

InitRoster ==
    /\ now = 0
    /\ local = [f \in {StudentsFile} |-> <<>>]
    /\ remote = [s \in Subjects |-> <<>>]
    /\ sess = [p \in Procs |-> Idle]
    /\ launches = 0
    /\ ev = [op |-> "init", usn |-> <<>>, name |-> <<>>, added |-> FALSE]

\* one call of ensure_student_in_csv(usn, name)
EnsureStudent(usn, name) ==
    LET r == EnsureStudentInCsv(local[StudentsFile], usn, name)
    IN  /\ Len(local[StudentsFile]) <= MaxRoster
        /\ local' = [local EXCEPT ![StudentsFile] = r.file]
        /\ ev' = [op |-> "ensure", usn |-> usn, name |-> name, added |-> r.added]
        /\ UNCHANGED <<now, remote, sess, launches>>

NextRoster == \E usn \in RosterUsns, name \in RosterNames : EnsureStudent(usn, name)

SpecRoster == InitRoster /\ [][NextRoster]_vars

\* the data rows of the roster
RosterRows(file) == 2..Len(file)

\* no two rows of the roster have USNs that are equal ignoring letter case
RosterUsnsDistinct ==
    \A i, j \in RosterRows(local[StudentsFile]) :
        Upper(local[StudentsFile][i][1]) = Upper(local[StudentsFile][j][1]) => i = j

\* every stored USN is upper-case
RosterUsnsUpper ==
    \A i \in RosterRows(local[StudentsFile]) :
        Upper(local[StudentsFile][i][1]) = local[StudentsFile][i][1]

\* a call for a USN the roster holds, in any letter case, changes no row
RosterPresentUnchanged ==
    [][ (/\ ev'.op = "ensure"
         /\ \E i \in RosterRows(local[StudentsFile]) :
                Upper(local[StudentsFile][i][1]) = Upper(ev'.usn))
        => local'[StudentsFile] = local[StudentsFile] ]_vars

\* a row keeps the name it was registered with
RosterNamesKept ==
    [][ \A i \in RosterRows(local[StudentsFile]) :
            /\ Len(local'[StudentsFile]) >= i
            /\ local'[StudentsFile][i][2] = local[StudentsFile][i][2] ]_vars

(* C27: starting from a missing roster file, after any calls of             *)
(* ensure_student_in_csv no two rows have USNs equal ignoring letter case,  *)
(* every stored USN is upper-case, a call for a USN already present leaves  *)
(* the roster unchanged, and a registered name is never overwritten.        *)
C27_RosterUnique ==
    /\ []RosterUsnsDistinct
    /\ []RosterUsnsUpper
    /\ RosterPresentUnchanged
    /\ RosterNamesKept


-----------------------------------------------------------------------------
(* The background encoding task (register_student.py):                      *)
(* generate_face_encodings_thread scans the image folders, writes the       *)
(* snapshot face_encodings.pkl and reports through its callback. The task   *)
(* is followed statement by statement, since the exception handler around   *)
(* its body also surrounds the two calls of the callback.                   *)

\* most runs of the encoding task
MaxRuns == 2

ImagesDir == "student_images"

EncodingsFile == "face_encodings"

\* folders under student_images: two well-formed ones and one without "_"
ImageFolders == {KnownNames[i] : i \in 1..Len(KnownNames)} \cup { <<"t", "m", "p">> }

\* folder.split("_", 1) gives two parts
WellFormedFolder(folder) == Find(folder, "_") > 0

\* the names stored for the folders: f"{usn}_{name}" of every well-formed
\* folder holding a picture with a face
ScanFolders(images) ==
    { FolderName(SplitOnce(d.folder, "_")[1], SplitOnce(d.folder, "_")[2]) :
        d \in { x \in images : WellFormedFolder(x.folder) /\ x.faces > 0 } }

NoSnapshot == [state |-> "missing", names |-> {}]

\* open(ENCODINGS_FILE, "wb"): the file is emptied before anything is written
Truncated == [state |-> "partial", names |-> {}]

\* pickle.dump raises after the file was opened for writing
DumpFails(old) == Truncated

Dumped(names) == [state |-> "whole", names |-> names]

TaskIdle == [pc |-> "idle", known_names |-> {}, calls |-> <<>>, before |-> NoSnapshot, runs |-> 0]

InitEncode ==
    /\ now = 0
    /\ local = [images |-> {}, snapshot |-> NoSnapshot]
    /\ remote = [s \in Subjects |-> <<>>]
    /\ sess = TaskIdle
    /\ launches = 0
    /\ ev = [op |-> "init"]

\* capture_photos makes a folder and saves pictures into it
AddFolder(folder, faces) ==
    /\ sess.pc = "idle"
    /\ \A d \in local.images : d.folder # folder
    /\ local' = [local EXCEPT !.images = @ \cup {[folder |-> folder, faces |-> faces]}]
    /\ ev' = [op |-> "folder"]
    /\ UNCHANGED <<now, remote, sess, launches>>

\* generate_and_save starts the thread
StartTask ==
    /\ sess.pc = "idle"
    /\ sess.runs < MaxRuns
    /\ sess' = [pc |-> "scan", known_names |-> {}, calls |-> <<>>,
                before |-> local.snapshot, runs |-> sess.runs + 1]
    /\ ev' = [op |-> "start"]
    /\ UNCHANGED <<now, local, remote, launches>>

\* lines 31-65: the folders are scanned; raises says that listing a folder
\* or reading a picture raises
Scan(raises) ==
    /\ sess.pc = "scan"
    /\ IF raises
       THEN sess' = [sess EXCEPT !.pc = "except"]
       ELSE LET names == ScanFolders(local.images)
            IN  sess' = [sess EXCEPT !.known_names = names,
                                     !.pc = IF names = {} THEN "cb_empty" ELSE "write"]
    /\ ev' = [op |-> "scan"]
    /\ UNCHANGED <<now, local, remote, launches>>

\* lines 63-65: nothing was found, callback(False) and return
CallbackEmpty(raises) ==
    /\ sess.pc = "cb_empty"
    /\ sess' = [sess EXCEPT !.calls = Append(@, FALSE),
                            !.pc = IF raises THEN "except" ELSE "done"]
    /\ ev' = [op |-> "callback"]
    /\ UNCHANGED <<now, local, remote, launches>>

\* lines 67-68: the snapshot file is opened for writing and filled
WriteSnapshot(raises) ==
    /\ sess.pc = "write"
    /\ IF raises
       THEN /\ local' = [local EXCEPT !.snapshot = DumpFails(@)]
            /\ sess' = [sess EXCEPT !.pc = "except"]
       ELSE /\ local' = [local EXCEPT !.snapshot = Dumped(sess.known_names)]
            /\ sess' = [sess EXCEPT !.pc = "cb_true"]
    /\ ev' = [op |-> "write"]
    /\ UNCHANGED <<now, remote, launches>>

\* line 70: callback(True), inside the try
CallbackTrue(raises) ==
    /\ sess.pc = "cb_true"
    /\ sess' = [sess EXCEPT !.calls = Append(@, TRUE),
                            !.pc = IF raises THEN "except" ELSE "done"]
    /\ ev' = [op |-> "callback"]
    /\ UNCHANGED <<now, local, remote, launches>>

\* lines 72-74: the handler prints the error and calls callback(False); when
\* that call raises too the thread ends with the exception
Except(raises) ==
    /\ sess.pc = "except"
    /\ sess' = [sess EXCEPT !.calls = Append(@, FALSE), !.pc = "done"]
    /\ ev' = [op |-> IF raises THEN "traceback" ELSE "except"]
    /\ UNCHANGED <<now, local, remote, launches>>

\* the thread is over
EndTask ==
    /\ sess.pc = "done"
    /\ sess' = [sess EXCEPT !.pc = "idle"]
    /\ ev' = [op |-> "end"]
    /\ UNCHANGED <<now, local, remote, launches>>

NextEncode ==
    \/ \E folder \in ImageFolders, faces \in 0..1 : AddFolder(folder, faces)
    \/ StartTask
    \/ \E raises \in BOOLEAN : Scan(raises)
    \/ \E raises \in BOOLEAN : CallbackEmpty(raises)
    \/ \E raises \in BOOLEAN : WriteSnapshot(raises)
    \/ \E raises \in BOOLEAN : CallbackTrue(raises)
    \/ \E raises \in BOOLEAN : Except(raises)
    \/ EndTask

SpecEncode == InitEncode /\ [][NextEncode]_vars

\* a finished run has called the callback exactly once
CallbackOnce == sess.pc = "done" => Len(sess.calls) = 1

\* the callback is called with True only when the snapshot is complete and
\* holds at least one pair
TrueMeansWritten ==
    \A i \in 1..Len(sess.calls) :
        sess.calls[i] => (local.snapshot.state = "whole" /\ local.snapshot.names # {})

\* a run that reported False left the snapshot as it was
FalseKeepsSnapshot ==
    (sess.pc = "done" /\ \E i \in 1..Len(sess.calls) : ~sess.calls[i])
        => local.snapshot = sess.before

(* C29: every run of the encoding task calls its callback exactly once,     *)
(* with True only after the snapshot was completely written with at least   *)
(* one pair, also when the callback raises; a run whose result is False     *)
(* leaves the stored snapshot unchanged.                                    *)
C29_CallbackExactlyOnce == CallbackOnce /\ TrueMeansWritten /\ FalseKeepsSnapshot


-----------------------------------------------------------------------------
(* The login window (login.py): login_user looks the typed USN up in the    *)
(* first column of the first worksheet and starts the student dashboard,    *)
(* login_admin compares the typed password and starts the admin dashboard.  *)

\* most rows of the first worksheet below its header
MaxSheetRows == 3

Sheet1 == "sheet1"

AdminPassword == <<"a", "d", "m", "i", "n", "1", "2", "3">>

\* what is typed into the USN field
TypedUsns ==
    { <<"A", "1">>, <<" ", "A", "1">>, <<"0", "7">>, <<"a", "1">>, T_USN, <<>>, <<" ">> }

\* what is typed into the password field
TypedPasswords == { AdminPassword, AdminPassword \o <<" ">>, <<"a", "d", "m", "i", "n">>, <<>> }

\* the first cells of the rows the sheet can get: a student's row, or a row
\* whose first cell was left empty
SheetUsns == { <<"A", "1">>, <<"0", "7">>, <<>> }

\* number of rows up to the last one whose cell in column col is not empty
RECURSIVE LastFilled(_, _)
LastFilled(ws, col) ==
    IF ws = <<>> THEN 0
    ELSE IF ws[Len(ws)][col] # <<>> THEN Len(ws)
    ELSE LastFilled(SubSeq(ws, 1, Len(ws) - 1), col)

\* sheet.col_values(col): the cells of the column from the first row on, the
\* header cell among them, without the empty cells at the end
ColValues(ws, col) == [i \in 1..LastFilled(ws, col) |-> ws[i][col]]

\* usn in usn_list
InUsnList(ws, usn) == \E i \in 1..Len(ColValues(ws, 1)) : ColValues(ws, 1)[i] = usn

NoLoginEv ==
    [op |-> "init", typed |-> <<>>, spawned |-> "", arg |-> <<>>, fault |-> FALSE]

InitLogin ==
    /\ now = 0
    /\ local = [f \in Subjects |-> <<>>]
    /\ remote \in { [s \in {Sheet1} |-> ws] : ws \in { <<>>, <<HeaderRow>> } }
    /\ sess \in { [client |-> c, window |-> "open"] : c \in BOOLEAN }
    /\ launches = 0
    /\ ev = NoLoginEv

\* a row is added to the first worksheet
SheetAppend(usn) ==
    /\ sess.window = "open"
    /\ remote[Sheet1] # <<>>
    /\ Len(remote[Sheet1]) <= MaxSheetRows
    /\ remote' = [remote EXCEPT ![Sheet1] =
                     Append(@, <<usn, <<"R">>, DateStr(now), TimeStr(now), T_PRESENT>>)]
    /\ ev' = [NoLoginEv EXCEPT !.op = "sheet"]
    /\ UNCHANGED <<now, local, sess, launches>>

\* login_user (login.py lines 29-48): fault says that opening the sheet or
\* reading the column raises, pfault that starting the process raises
LoginUser(typed, fault, pfault) ==
    LET usn == Strip(typed)
    IN  /\ sess.window = "open"
        /\ IF ~sess.client \/ fault
           THEN /\ ev' = [NoLoginEv EXCEPT !.op = "login_user", !.typed = typed, !.fault = TRUE]
                /\ UNCHANGED <<sess, launches>>
           ELSE IF InUsnList(remote[Sheet1], usn)
           THEN /\ sess' = [sess EXCEPT !.window = "closed"]
                /\ IF pfault
                   THEN /\ ev' = [NoLoginEv EXCEPT !.op = "login_user", !.typed = typed]
                        /\ UNCHANGED launches
                   ELSE /\ ev' = [NoLoginEv EXCEPT !.op = "login_user", !.typed = typed,
                                                   !.spawned = "dashboard", !.arg = usn]
                        /\ launches' = launches + 1
           ELSE /\ ev' = [NoLoginEv EXCEPT !.op = "login_user", !.typed = typed]
                /\ UNCHANGED <<sess, launches>>
        /\ UNCHANGED <<now, local, remote>>

\* login_admin (login.py lines 52-63)
LoginAdmin(typed, pfault) ==
    LET pwd == Strip(typed)
    IN  /\ sess.window = "open"
        /\ IF pwd = AdminPassword
           THEN /\ sess' = [sess EXCEPT !.window = "closed"]
                /\ IF pfault
                   THEN /\ ev' = [NoLoginEv EXCEPT !.op = "login_admin", !.typed = typed]
                        /\ UNCHANGED launches
                   ELSE /\ ev' = [NoLoginEv EXCEPT !.op = "login_admin", !.typed = typed,
                                                   !.spawned = "admin_dashboard"]
                        /\ launches' = launches + 1
           ELSE /\ ev' = [NoLoginEv EXCEPT !.op = "login_admin", !.typed = typed]
                /\ UNCHANGED <<sess, launches>>
        /\ UNCHANGED <<now, local, remote>>

NextLogin ==
    \/ \E usn \in SheetUsns : SheetAppend(usn)
    \/ \E typed \in TypedUsns, fault \in BOOLEAN, pfault \in BOOLEAN : LoginUser(typed, fault, pfault)
    \/ \E typed \in TypedPasswords, pfault \in BOOLEAN : LoginAdmin(typed, pfault)

SpecLogin == InitLogin /\ [][NextLogin]_vars

\* the student dashboard starts only for the USN of a data row, and gets it
\* as its argument
StudentGate ==
    [][ ev'.spawned = "dashboard" =>
            /\ ev'.arg = Strip(ev'.typed)
            /\ ev'.arg # <<>>
            /\ \E i \in 2..Len(remote[Sheet1]) : remote[Sheet1][i][1] = ev'.arg ]_vars

\* the admin dashboard starts only for the admin password
AdminGate ==
    [][ ev'.spawned = "admin_dashboard" => Strip(ev'.typed) = AdminPassword ]_vars

\* without the sheet client, or when the lookup raises, nothing starts and
\* the window stays open
FaultGate ==
    [][ (ev'.op = "login_user" /\ (~sess.client \/ ev'.fault)) =>
            (ev'.spawned = "" /\ launches' = launches /\ sess'.window = "open") ]_vars

(* C30: the student dashboard is started only when the entered identifier   *)
(* is the USN of a data row in column 1 of the sheet - not the header cell  *)
(* and not an empty cell - and with that identifier as its argument; the    *)
(* admin dashboard only when the entered password is the admin password;    *)
(* when the client is unavailable or the lookup raises nothing is started   *)
(* and the window stays open.                                               *)
C30_LoginGating == StudentGate /\ AdminGate /\ FaultGate

=============================================================================
